---- MODULE Spec2Model ----
(***************************************************************************)
(* A model of the Gmail helper library (email_helpers/gmail_helpers.py)    *)
(* and of the command-line script that drives it                            *)
(* (example_usage/send_test_email_with_gmail.py).                          *)
(*                                                                         *)
(* Python values are modelled as follows.                                  *)
(*   - An optional object (None or an object) is a sequence of length 0    *)
(*     or 1: None is <<>> and the object c is <<c>>.                       *)
(*   - A string is a sequence of characters (one-character strings).       *)
(*   - A list argument that may be None is a record [isNone, items].       *)
(*   - A call that raises is a result record whose raised field names the  *)
(*     exception; "none" means the call returned normally.                 *)
(* Three specifications share the variables: SpecCred (the credential      *)
(* manager called repeatedly while the clock advances), SpecMsg (the       *)
(* message composer and the sender called as library functions) and        *)
(* SpecMain (one run of the command-line script).                          *)
(***************************************************************************)
EXTENDS Integers, Sequences, FiniteSets, TLC

\* ------------------------------------------------------------------------
\* Bounds of the model
\* ------------------------------------------------------------------------

\* The clock runs from 0 to MaxTime.
MaxTime == 3

\* Access tokens issued by the provider are numbered 1..MaxTok.
MaxTok == 3

None == <<>>

Some(x) == <<x>>

\* ------------------------------------------------------------------------
\* Credentials (google.oauth2 credential objects as the code uses them)
\* ------------------------------------------------------------------------

\* A credential: the access token, its expiry time, and whether it carries a
\* refresh token (the code only tests the refresh token's truthiness).
Credential(tok, exp, rt) == [token |-> tok, expiry |-> exp, refresh_token |-> rt]

\* gmail_credentials.expired: the clock has reached the expiry time.
expired(cred, clock) == clock >= cred.expiry

\* os.path.exists(gmail_token_file)
os_path_exists(file) == file # None

\* pickle.load(token): the object stored in the token file
pickle_load(file) == file

\* What the outside world answers during one invocation:
\*   flow    - the credential the interactive flow yields, None if it fails
\*   refresh - the [token, expiry] a refresh yields, None if it is rejected
\*   writeOk - whether the token file can be opened for writing
World(flow, refresh, writeOk) == [flow |-> flow, refresh |-> refresh, writeOk |-> writeOk]

\* The result of one invocation of get_gmail_credentials.
CredResult(ret, raised, file, flowCalls, refreshCalls, writes) ==
    [ret |-> ret, raised |-> raised, file |-> file, flowCalls |-> flowCalls,
     refreshCalls |-> refreshCalls, writes |-> writes]

\* generate_gmail_token: run the interactive flow and return its credential.
generate_gmail_token(world) == world.flow

\* gmail_credentials.refresh(Request()): the credential object is updated in
\* place with a new access token and expiry; the refresh token is kept.
refresh(cred, answer) == Credential(answer.token, answer.expiry, cred.refresh_token)

\* with open(gmail_token_file, "wb") as token: pickle.dump(cred, token)
\* The file holds cred afterwards; if it cannot be opened it is untouched.
pickle_dump(file, cred, writeOk) == IF writeOk THEN Some(cred) ELSE file

\* Lines 79-81 and 87-89: the interactive flow, then the dump.
GenerateBranch(file, world) ==
    LET fresh == generate_gmail_token(world)
    IN  IF fresh = None
        THEN CredResult(None, "flow", file, 1, 0, 0)
        ELSE IF ~world.writeOk
        THEN CredResult(None, "io", pickle_dump(file, fresh[1], FALSE), 1, 0, 0)
        ELSE CredResult(fresh, "none", pickle_dump(file, fresh[1], TRUE), 1, 0, 1)

\* Lines 83-85: the refresh, then the dump.
RefreshBranch(file, loaded, world) ==
    IF world.refresh = None
    THEN CredResult(None, "refresh", file, 0, 1, 0)
    ELSE LET fresh == refresh(loaded, world.refresh[1])
         IN  IF ~world.writeOk
             THEN CredResult(None, "io", pickle_dump(file, fresh, FALSE), 0, 1, 0)
             ELSE CredResult(Some(fresh), "none", pickle_dump(file, fresh, TRUE), 0, 1, 1)

\* Line 91 reached with none of the three branches taken.
ReturnCached(file, loaded) == CredResult(Some(loaded), "none", file, 0, 0, 0)

\* Mutant: an expired credential without a refresh token is returned as it is.
get_gmail_credentials_NoFallback(file, clock, world) ==
    LET gmail_credentials == IF os_path_exists(file) THEN pickle_load(file) ELSE None
    IN  IF gmail_credentials = None
        THEN GenerateBranch(file, world)
        ELSE IF expired(gmail_credentials[1], clock) /\ gmail_credentials[1].refresh_token
        THEN RefreshBranch(file, gmail_credentials[1], world)
        ELSE ReturnCached(file, gmail_credentials[1])

\* Mutant: an expired credential is always replaced through the interactive
\* flow, whether or not it carries a refresh token.
get_gmail_credentials_AlwaysFlow(file, clock, world) ==
    LET gmail_credentials == IF os_path_exists(file) THEN pickle_load(file) ELSE None
    IN  IF gmail_credentials = None
        THEN GenerateBranch(file, world)
        ELSE IF expired(gmail_credentials[1], clock)
        THEN GenerateBranch(file, world)
        ELSE ReturnCached(file, gmail_credentials[1])

\* Mutant: an expired credential is always refreshed, whether or not it
\* carries a refresh token.
get_gmail_credentials_AlwaysRefresh(file, clock, world) ==
    LET gmail_credentials == IF os_path_exists(file) THEN pickle_load(file) ELSE None
    IN  IF gmail_credentials = None
        THEN GenerateBranch(file, world)
        ELSE IF expired(gmail_credentials[1], clock)
        THEN RefreshBranch(file, gmail_credentials[1], world)
        ELSE ReturnCached(file, gmail_credentials[1])

\* Mutant: the token file is rewritten on every invocation, also when the
\* cached credential is still good.
get_gmail_credentials_AlwaysDump(file, clock, world) ==
    LET gmail_credentials == IF os_path_exists(file) THEN pickle_load(file) ELSE None
    IN  IF gmail_credentials = None
        THEN GenerateBranch(file, world)
        ELSE IF expired(gmail_credentials[1], clock) /\ gmail_credentials[1].refresh_token
        THEN RefreshBranch(file, gmail_credentials[1], world)
        ELSE IF expired(gmail_credentials[1], clock) /\ ~gmail_credentials[1].refresh_token
        THEN GenerateBranch(file, world)
        ELSE IF ~world.writeOk
        THEN CredResult(None, "io", file, 0, 0, 0)
        ELSE CredResult(gmail_credentials, "none", file, 0, 0, 1)

\* Mutant: the refreshed credential is returned but not written back.
get_gmail_credentials_NoDump(file, clock, world) ==
    LET gmail_credentials == IF os_path_exists(file) THEN pickle_load(file) ELSE None
    IN  IF gmail_credentials = None
        THEN GenerateBranch(file, world)
        ELSE IF expired(gmail_credentials[1], clock) /\ gmail_credentials[1].refresh_token
        THEN IF world.refresh = None
             THEN CredResult(None, "refresh", file, 0, 1, 0)
             ELSE CredResult(Some(refresh(gmail_credentials[1], world.refresh[1])),
                             "none", file, 0, 1, 0)
        ELSE IF expired(gmail_credentials[1], clock) /\ ~gmail_credentials[1].refresh_token
        THEN GenerateBranch(file, world)
        ELSE ReturnCached(file, gmail_credentials[1])

\* get_gmail_credentials: load the cached credential if the token file
\* exists; generate, refresh or regenerate it as needed; return it.
get_gmail_credentials(file, clock, world) ==
    LET gmail_credentials == IF os_path_exists(file) THEN pickle_load(file) ELSE None
    IN  IF gmail_credentials = None
        THEN GenerateBranch(file, world)
        ELSE IF expired(gmail_credentials[1], clock) /\ gmail_credentials[1].refresh_token
        THEN RefreshBranch(file, gmail_credentials[1], world)
        ELSE IF expired(gmail_credentials[1], clock) /\ ~gmail_credentials[1].refresh_token
        THEN GenerateBranch(file, world)
        ELSE ReturnCached(file, gmail_credentials[1])

\* ------------------------------------------------------------------------
\* Strings and lists
\* ------------------------------------------------------------------------

\* The string ", "
CommaSpace == <<",", " ">>

\* The string ","
Comma == <<",">>

\* A list argument that may be None.
PyNone == [isNone |-> TRUE, items |-> <<>>]

PyList(items) == [isNone |-> FALSE, items |-> items]

\* Python truthiness of a list-or-None value: `not x` holds of None and [].
falsy(x) == x.isNone \/ x.items = <<>>

RECURSIVE join(_, _)
\* sep.join(items): the items in order, sep between neighbours.
join(sep, items) ==
    IF items = <<>> THEN <<>>
    ELSE IF Len(items) = 1 THEN items[1]
    ELSE items[1] \o sep \o join(sep, Tail(items))

\* ------------------------------------------------------------------------
\* Building a message
\* ------------------------------------------------------------------------

Header(name, value) == [name |-> name, value |-> value]

\* MIMEMultipart(): an empty multipart container with its two own headers.
MIMEMultipart ==
    [headers |-> <<Header("Content-Type", <<"multipart/mixed">>),
                   Header("MIME-Version", <<"1.0">>)>>,
     parts |-> <<>>]

\* email_msg[name] = value: Message.__setitem__ appends a header.
set_header(msg, name, value) ==
    [msg EXCEPT !.headers = Append(@, Header(name, value))]

\* email_msg.attach(part)
attach(msg, part) == [msg EXCEPT !.parts = Append(@, part)]

\* A MIME part: the class that was instantiated, its content type, its
\* payload and its Content-Disposition file name (None for the body).
MimePart(class, main_type, sub_type, payload, filename) ==
    [class |-> class, main_type |-> main_type, sub_type |-> sub_type,
     payload |-> payload, filename |-> filename]

\* MIMEText(email_body, "plain")
MIMEText(text, sub_type) == MimePart("MIMEText", "text", sub_type, text, None)

\* mimetypes.guess_type(filename) on the file names of the model:
\* <<content type, encoding>>, "" standing for Python's None.
guess_type(filename) ==
    CASE filename = "notes.txt"   -> <<"text/plain", "">>
      [] filename = "photo.png"   -> <<"image/png", "">>
      [] filename = "sound.wav"   -> <<"audio/x-wav", "">>
      [] filename = "data.tar.gz" -> <<"application/x-tar", "gzip">>
      [] filename = "report.xlsx" ->
           <<"application/vnd.openxmlformats-officedocument.spreadsheetml.sheet", "">>
      [] OTHER                    -> <<"", "">>

\* attachment_filename.endswith(".xlsx")
endswith_xlsx(filename) == filename = "report.xlsx"

\* content_type.split("/") on the content types of the model
split_type(content_type) ==
    CASE content_type = "text/plain"               -> <<"text", "plain">>
      [] content_type = "image/png"                -> <<"image", "png">>
      [] content_type = "audio/x-wav"              -> <<"audio", "x-wav">>
      [] content_type = "application/vnd-xls"      -> <<"application", "vnd-xls">>
      [] OTHER                                     -> <<"application", "octet-stream">>

\* The content type encode_attachment_for_email settles on (lines 206-211).
content_type_of(filename) ==
    LET guess == guess_type(filename)
        first == IF guess[1] = "" \/ guess[2] # "" THEN "application/octet-stream"
                 ELSE guess[1]
    IN  IF endswith_xlsx(filename) THEN "application/vnd-xls" ELSE first

\* encode_attachment_for_email: open the file (an error if it is missing or
\* unreadable) and wrap its bytes in the MIME class of its content type.
\* MIMEText is given the bytes read from a file opened "rb": it calls
\* .encode on them, which bytes do not have, and raises AttributeError.
\* fs is the set of files that can be opened for reading; the bytes of a
\* file are named after the file.
encode_attachment_for_email(filename, fs) ==
    LET types == split_type(content_type_of(filename))
        main_type == types[1]
        sub_type == types[2]
        bytes == <<"bytes of", filename>>
        class == IF main_type = "text" THEN "MIMEText"
                 ELSE IF main_type = "image" THEN "MIMEImage"
                 ELSE IF main_type = "audio" THEN "MIMEAudio"
                 ELSE IF sub_type = "vnd-xls" THEN "MIMEApplication"
                 ELSE "MIMEBase"
    IN  IF filename \notin fs
        THEN [raised |-> "OSError", attachment |-> None]
        ELSE IF main_type = "text"
        THEN [raised |-> "AttributeError", attachment |-> None]
        ELSE [raised |-> "none",
              attachment |-> Some(MimePart(class, main_type, sub_type, bytes, None))]

\* attachment.add_header("Content-Disposition", "attachment", filename=...)
add_disposition(part, filename) == [part EXCEPT !.filename = Some(filename)]

RECURSIVE attach_all(_, _, _)
\* Lines 184-189: the loop over the attachment file names; the first file
\* that cannot be opened ends it with that error.
attach_all(msg, filenames, fs) ==
    IF filenames = <<>> THEN [raised |-> "none", msg |-> Some(msg)]
    ELSE LET enc == encode_attachment_for_email(Head(filenames), fs)
         IN  IF enc.raised # "none"
             THEN [raised |-> enc.raised, msg |-> None]
             ELSE attach_all(attach(msg, add_disposition(enc.attachment[1], Head(filenames))),
                             Tail(filenames), fs)

\* email_msg.as_string(): one line per header, "name: value", then the parts.
as_string(msg) ==
    [lines |-> [i \in 1..Len(msg.headers) |->
                    <<msg.headers[i].name, ":", " ">> \o msg.headers[i].value],
     parts |-> msg.parts]

\* base64.urlsafe_b64encode(text.encode()).decode(): the encoding is kept
\* symbolic, a value that is not the text and from which the text is read
\* back only by decoding.
urlsafe_b64encode(text) == [b64 |-> text]

\* The result of one call of build_msg_obj.
BuildResult(raised, payload) == [raised |-> raised, payload |-> payload]

\* Mutant: the addresses are joined with "," instead of ", ".
compose_CommaOnly(email_from, email_subject, email_body, email_to, email_cc, email_bcc) ==
    LET m1 == set_header(MIMEMultipart, "subject", email_subject)
        m2 == set_header(m1, "from", email_from)
        m3 == set_header(m2, "to", join(Comma, email_to.items))
        m4 == set_header(m3, "cc", IF falsy(email_cc) THEN <<>>
                                   ELSE join(CommaSpace, email_cc.items))
        m5 == set_header(m4, "bcc", IF falsy(email_bcc) THEN <<>>
                                    ELSE join(CommaSpace, email_bcc.items))
    IN  attach(m5, MIMEText(email_body, "plain"))

\* Lines 173-181: the headers and the body.
compose(email_from, email_subject, email_body, email_to, email_cc, email_bcc) ==
    LET m1 == set_header(MIMEMultipart, "subject", email_subject)
        m2 == set_header(m1, "from", email_from)
        m3 == set_header(m2, "to", join(CommaSpace, email_to.items))
        m4 == set_header(m3, "cc", IF falsy(email_cc) THEN <<>>
                                   ELSE join(CommaSpace, email_cc.items))
        m5 == set_header(m4, "bcc", IF falsy(email_bcc) THEN <<>>
                                    ELSE join(CommaSpace, email_bcc.items))
    IN  attach(m5, MIMEText(email_body, "plain"))

\* Mutant: when an attachment cannot be read, the message is sent without
\* attachments instead of the error being raised.
build_msg_obj_BodyOnly(email_from, email_subject, email_body, email_to, email_cc, email_bcc, email_attachments, fs) ==
    IF email_to.isNone THEN BuildResult("TypeError", None)
    ELSE IF email_attachments.isNone THEN BuildResult("TypeError", None)
    ELSE LET email_msg == compose(email_from, email_subject, email_body,
                                  email_to, email_cc, email_bcc)
             full == attach_all(email_msg, email_attachments.items, fs)
         IN  IF full.raised # "none"
             THEN BuildResult("none", Some([raw |-> urlsafe_b64encode(as_string(email_msg))]))
             ELSE BuildResult("none",
                              Some([raw |-> urlsafe_b64encode(as_string(full.msg[1]))]))

\* build_msg_obj: compose the headers and the body, attach the files, encode.
\* An argument of None where the code iterates over it is a TypeError.
build_msg_obj(email_from, email_subject, email_body, email_to, email_cc, email_bcc, email_attachments, fs) ==
    IF email_to.isNone THEN BuildResult("TypeError", None)
    ELSE IF email_attachments.isNone THEN BuildResult("TypeError", None)
    ELSE LET email_msg == compose(email_from, email_subject, email_body,
                                  email_to, email_cc, email_bcc)
             full == attach_all(email_msg, email_attachments.items, fs)
         IN  IF full.raised # "none" THEN BuildResult(full.raised, None)
             ELSE BuildResult("none",
                              Some([raw |-> urlsafe_b64encode(as_string(full.msg[1]))]))

\* ------------------------------------------------------------------------
\* Sending a message
\* ------------------------------------------------------------------------

\* The result of one call of send_email: the API requests it made, what it
\* logged and what it raised.
SendResult(requests, log, raised) == [requests |-> requests, log |-> log, raised |-> raised]

\* gmail_service.users().messages().send(userId="me", body=email_msg)
SendRequest(email_msg) == [userId |-> "me", body |-> email_msg]

\* Mutant: a failed send is tried once more before the error is raised.
send_email_Retry(gmail_service, email_msg, api) ==
    IF api[1] = "ok"
    THEN SendResult(<<SendRequest(email_msg)>>, <<>>, "none")
    ELSE IF api[2] = "ok"
    THEN SendResult(<<SendRequest(email_msg), SendRequest(email_msg)>>, <<>>, "none")
    ELSE SendResult(<<SendRequest(email_msg), SendRequest(email_msg)>>, <<api[2]>>, api[2])

\* send_email: one execute() of the send request; an exception is logged
\* and raised again. api[i] is the provider's answer to the i-th request of
\* this call: "ok" or the exception it raises.
send_email(gmail_service, email_msg, api) ==
    IF api[1] = "ok"
    THEN SendResult(<<SendRequest(email_msg)>>, <<>>, "none")
    ELSE SendResult(<<SendRequest(email_msg)>>, <<api[1]>>, api[1])

\* ------------------------------------------------------------------------
\* State
\* ------------------------------------------------------------------------

VARIABLES
    tokenFile,  \* the token cache file: None, or the credential pickled in it
    now,        \* the clock
    nextTok,    \* the next access token the provider will issue
    inv,        \* the latest invocation of get_gmail_credentials, None before
    fs,         \* the attachment files that can be opened for reading
    args,       \* the arguments of the library call of build_msg_obj to come
    built,      \* the latest call of build_msg_obj, None before
    sent,       \* the latest call of send_email, None before
    mailbox,    \* the send requests the provider has received, in order
    pc,         \* where the script's main() stands
    argv,       \* the script's command line
    opts,       \* the options get_options parsed, None before
    service,    \* the service object main() built, None before
    exit        \* the exception that ended the script, "none" if none did

credVars == <<tokenFile, now, nextTok, inv>>

msgVars == <<fs, args, built>>

sendVars == <<sent, mailbox>>

mainVars == <<pc, argv, opts, service, exit>>

vars == <<tokenFile, now, nextTok, inv, fs, args, built, sent, mailbox, pc, argv, opts, service,
          exit>>

\* ------------------------------------------------------------------------
\* Bounds and input sets
\* ------------------------------------------------------------------------

\* The longest To list a caller passes to build_msg_obj.
MaxAddrs == 2

\* The longest attachment list.
MaxAttach == 2

\* The number of send requests after which the model stops sending.
MaxMailbox == 3

\* The requests of one send_email call whose answers the model fixes.
MaxAttempts == 2

AddrA == <<"a", "@", "x">>

AddrB == <<"b", "@", "y">>

Addrs == {AddrA, AddrB}

Paths == {"notes.txt", "photo.png", "report.xlsx"}

\* The exceptions the send request can raise.
ApiErrors == {"HttpError", "TimeoutError"}

\* All sequences over S of length lo..hi.
SeqsOf(S, lo, hi) == UNION { [1..n -> S] : n \in lo..hi }

\* The Cc and Bcc arguments tried: None, no address, one address, two.
OptionalAddrLists == {PyNone, PyList(<<>>), PyList(<<AddrA>>), PyList(<<AddrB, AddrA>>)}

\* The To arguments tried: None and every list of up to MaxAddrs addresses.
ToLists == {PyNone} \cup { PyList(l) : l \in SeqsOf(Addrs, 0, MaxAddrs) }

\* The attachment arguments tried: None and every list of up to MaxAttach
\* file names.
AttachmentLists == {PyNone} \cup { PyList(l) : l \in SeqsOf(Paths, 0, MaxAttach) }

Sender == <<"m", "e">>

Subject == <<"T", "e", "s", "t">>

Body == <<"H", "e", "l", "l", "o">>

\* The credentials a token file can hold when the program starts.
StartCredentials ==
    { Credential(0, e, rt) : e \in 0..(MaxTime + 1), rt \in BOOLEAN }

\* The answers the provider can give when it issues access token tok with an
\* expiry among expiries.
WorldsWith(tok, expiries) ==
    { World(f, r, w) :
        f \in {None} \cup { Some(Credential(tok, e, rt)) : e \in expiries, rt \in BOOLEAN },
        r \in {None} \cup { Some([token |-> tok, expiry |-> e]) : e \in expiries },
        w \in BOOLEAN }

\* The answers the provider can give at time clock: every fresh access token
\* expires later than clock (MaxTime + 1 stands for "after the model's end").
Worlds(clock, tok) == WorldsWith(tok, (clock + 1)..(MaxTime + 1))

\* ------------------------------------------------------------------------
\* The credential manager called as a library
\* ------------------------------------------------------------------------

IdleMsg == fs = Paths /\ args = None /\ built = None

IdleSend == sent = None /\ mailbox = <<>>

IdleMain ==
    /\ pc = "idle"
    /\ argv = None
    /\ opts = None
    /\ service = None
    /\ exit = "none"

InitCred ==
    /\ tokenFile \in {None} \cup { Some(c) : c \in StartCredentials }
    /\ now = 0
    /\ nextTok = 1
    /\ inv = None
    /\ IdleMsg
    /\ IdleSend
    /\ IdleMain

\* A caller invokes get_gmail_credentials.
GetGmailCredentials ==
    /\ nextTok <= MaxTok
    /\ \E world \in Worlds(now, nextTok) :
         LET res == get_gmail_credentials(tokenFile, now, world)
         IN  /\ tokenFile' = res.file
             /\ nextTok' = nextTok + res.flowCalls + res.refreshCalls
             /\ inv' = Some([pre |-> tokenFile, clock |-> now, world |-> world,
                             res |-> res])
    /\ UNCHANGED <<now, msgVars, sendVars, mainVars>>

\* Time passes between invocations; cached credentials may expire.
Tick ==
    /\ now < MaxTime
    /\ now' = now + 1
    /\ UNCHANGED <<tokenFile, nextTok, inv, msgVars, sendVars, mainVars>>

NextCred == GetGmailCredentials \/ Tick

SpecCred == InitCred /\ [][NextCred]_vars

\* ------------------------------------------------------------------------
\* The message composer called as a library
\* ------------------------------------------------------------------------

IdleCred ==
    /\ tokenFile = None
    /\ now = 0
    /\ nextTok = 1
    /\ inv = None

\* The arguments a caller passes (sender, subject and body are fixed).
BuildArgs ==
    { [email_to |-> to, email_cc |-> cc, email_bcc |-> bcc, email_attachments |-> att] :
        to \in ToLists, cc \in OptionalAddrLists, bcc \in OptionalAddrLists,
        att \in AttachmentLists }

InitMsg ==
    /\ fs \in SUBSET Paths
    /\ args \in { Some(a) : a \in BuildArgs }
    /\ built = None
    /\ IdleCred
    /\ IdleSend
    /\ IdleMain

\* The record of one call of build_msg_obj: its arguments and its result.
BuildCall(email_to, email_cc, email_bcc, email_attachments, res) ==
    [email_to |-> email_to, email_cc |-> email_cc, email_bcc |-> email_bcc,
     email_attachments |-> email_attachments, res |-> res]

\* The caller invokes build_msg_obj on its arguments.
BuildMsgObj ==
    /\ args # None
    /\ built = None
    /\ LET a == args[1]
       IN  built' = Some(BuildCall(a.email_to, a.email_cc, a.email_bcc, a.email_attachments,
                                   build_msg_obj(Sender, Subject, Body, a.email_to,
                                                 a.email_cc, a.email_bcc,
                                                 a.email_attachments, fs)))
    /\ UNCHANGED <<fs, args, credVars, sendVars, mainVars>>

NextMsg == BuildMsgObj

SpecMsg == InitMsg /\ [][NextMsg]_vars

\* ------------------------------------------------------------------------
\* The sender called as a library
\* ------------------------------------------------------------------------

\* The payloads handed to send_email: two messages build_msg_obj produces.
Payloads ==
    { build_msg_obj(Sender, Subject, Body, PyList(to), PyNone, PyNone, PyList(<<>>),
                    Paths).payload[1] : to \in {<<AddrA>>, <<AddrB>>} }

\* The provider's answers to the requests of one call.
ApiAnswers == [1..MaxAttempts -> {"ok"} \cup ApiErrors]

InitSend ==
    /\ sent = None
    /\ mailbox = <<>>
    /\ IdleCred
    /\ IdleMsg
    /\ IdleMain

\* A caller invokes send_email on a connected service.
SendEmail ==
    /\ Len(mailbox) < MaxMailbox
    /\ \E email_msg \in Payloads, api \in ApiAnswers :
         LET res == send_email("service", email_msg, api)
         IN  /\ sent' = Some([email_msg |-> email_msg, api |-> api, res |-> res])
             /\ mailbox' = mailbox \o res.requests
    /\ UNCHANGED <<credVars, msgVars, mainVars>>

NextSend == SendEmail

SpecSend == InitSend /\ [][NextSend]_vars

\* ------------------------------------------------------------------------
\* The command-line script
\* ------------------------------------------------------------------------

\* The command line: the values given with each repeatable flag, in order.
\* --gmail-account, --email-subject and --email-body are always given;
\* --email-to may be missing.
Argv(to, cc, bcc, attachments) ==
    [to |-> to, cc |-> cc, bcc |-> bcc, attachments |-> attachments]

\* argparse, action="append" with default=None: None when the flag is not
\* given, the list of its values otherwise.
append_action(values) == IF values = <<>> THEN PyNone ELSE PyList(values)

\* get_options: parse the command line; a missing required flag ends the
\* process (argparse raises SystemExit).
get_options(cmdline) ==
    IF cmdline.to = <<>>
    THEN [raised |-> "SystemExit", opts |-> None]
    ELSE [raised |-> "none",
          opts |-> Some([gmail_account |-> Sender,
                         email_subject |-> Subject,
                         email_body |-> Body,
                         email_to |-> append_action(cmdline.to),
                         email_cc |-> append_action(cmdline.cc),
                         email_bcc |-> append_action(cmdline.bcc),
                         email_attachements |-> append_action(cmdline.attachments)])]

\* get_gmail_service: build('gmail', 'v1', credentials=...); reachable says
\* whether the discovery request succeeds.
get_gmail_service(gmail_credentials, reachable) ==
    IF reachable
    THEN [raised |-> "none", service |-> Some([credentials |-> gmail_credentials])]
    ELSE [raised |-> "HttpError", service |-> None]

\* The command lines tried.
Argvs ==
    { Argv(to, cc, bcc, att) :
        to \in {<<>>, <<AddrA>>, <<AddrA, AddrB>>},
        cc \in {<<>>, <<AddrB>>},
        bcc \in {<<>>, <<AddrA>>},
        att \in SeqsOf(Paths, 0, MaxAttach) }

\* The token caches the script is started on: none, or a credential that is
\* expired or good, with or without a refresh token.
MainStartFiles ==
    {None} \cup { Some(Credential(0, e, rt)) : e \in {0, MaxTime + 1}, rt \in BOOLEAN }

InitMain ==
    /\ pc = "start"
    /\ argv \in { Some(a) : a \in Argvs }
    /\ fs \in SUBSET Paths
    /\ tokenFile \in MainStartFiles
    /\ now = 0
    /\ nextTok = 1
    /\ inv = None
    /\ args = None
    /\ built = None
    /\ opts = None
    /\ service = None
    /\ exit = "none"
    /\ IdleSend

\* main, line 53: opts = get_options()
MainGetOptions ==
    /\ pc = "start"
    /\ LET got == get_options(argv[1])
       IN  /\ opts' = got.opts
           /\ exit' = got.raised
           /\ pc' = IF got.raised = "none" THEN "opts" ELSE "failed"
    /\ UNCHANGED <<credVars, msgVars, sendVars, argv, service>>

\* main, lines 55-58: gmail_credentials = get_gmail_credentials(...)
MainGetCredentials ==
    /\ pc = "opts"
    /\ \E world \in WorldsWith(nextTok, {MaxTime + 1}) :
         LET res == get_gmail_credentials(tokenFile, now, world)
         IN  /\ tokenFile' = res.file
             /\ nextTok' = nextTok + res.flowCalls + res.refreshCalls
             /\ inv' = Some([pre |-> tokenFile, clock |-> now, world |-> world,
                             res |-> res])
             /\ exit' = res.raised
             /\ pc' = IF res.raised = "none" THEN "creds" ELSE "failed"
    /\ UNCHANGED <<now, msgVars, sendVars, argv, opts, service>>

\* main, line 59: gmail_service = get_gmail_service(gmail_credentials)
MainGetService ==
    /\ pc = "creds"
    /\ \E reachable \in BOOLEAN :
         LET got == get_gmail_service(inv[1].res.ret[1], reachable)
         IN  /\ service' = got.service
             /\ exit' = got.raised
             /\ pc' = IF got.raised = "none" THEN "service" ELSE "failed"
    /\ UNCHANGED <<credVars, msgVars, sendVars, argv, opts>>

\* main, lines 61-69: email_msg = build_msg_obj(...)
MainBuildMsg ==
    /\ pc = "service"
    /\ LET o == opts[1]
           res == build_msg_obj(o.gmail_account, o.email_subject, o.email_body,
                                o.email_to, o.email_cc, o.email_bcc,
                                o.email_attachements, fs)
       IN  /\ built' = Some(BuildCall(o.email_to, o.email_cc, o.email_bcc,
                                       o.email_attachements, res))
           /\ exit' = res.raised
           /\ pc' = IF res.raised = "none" THEN "msg" ELSE "failed"
    /\ UNCHANGED <<credVars, fs, args, sendVars, argv, opts, service>>

\* main, lines 71-73: send_email(gmail_service, email_msg), then the
\* completion is logged.
MainSendEmail ==
    /\ pc = "msg"
    /\ \E api \in ApiAnswers :
         LET email_msg == built[1].res.payload[1]
             res == send_email(service[1], email_msg, api)
         IN  /\ sent' = Some([email_msg |-> email_msg, api |-> api, res |-> res])
             /\ mailbox' = mailbox \o res.requests
             /\ exit' = res.raised
             /\ pc' = IF res.raised = "none" THEN "done" ELSE "failed"
    /\ UNCHANGED <<credVars, msgVars, argv, opts, service>>

NextMain ==
    \/ MainGetOptions
    \/ MainGetCredentials
    \/ MainGetService
    \/ MainBuildMsg
    \/ MainSendEmail

SpecMain == InitMain /\ [][NextMain]_vars

\* ------------------------------------------------------------------------
\* Properties of the credential manager (checked under SpecCred)
\* ------------------------------------------------------------------------

\* The latest invocation: what it found, when, and what it did.
Invoked == inv # None

Pre == inv[1].pre

Res == inv[1].res

ReturnedNormally == Invoked /\ Res.raised = "none"

PreExpired == Invoked /\ Pre # None /\ expired(Pre[1], inv[1].clock)

PreRefreshable == PreExpired /\ Pre[1].refresh_token

PreNotRefreshable == PreExpired /\ ~Pre[1].refresh_token

PreFresh == Invoked /\ Pre # None /\ ~expired(Pre[1], inv[1].clock)

\* C1: whatever the token cache held when the invocation started, a
\* credential that get_gmail_credentials returns is not expired at the time
\* of the invocation.
C1_ReturnedNotExpired ==
    ReturnedNormally => /\ Res.ret # None
                        /\ ~expired(Res.ret[1], inv[1].clock)

\* C1 witness: an expired cached credential without a refresh token was
\* replaced and the invocation returned.
C1_Witness == ReturnedNormally /\ PreNotRefreshable

\* C2: from an expired credential with a refresh token, one invocation makes
\* exactly one refresh call and no interactive flow; when it returns, the
\* token cache has been written once and holds the credential returned, which
\* is the cached one with the provider's new token and is not expired. (A
\* rejected refresh or an unwritable cache ends the invocation with an error
\* after that single refresh call.)
C2_RefreshOnceNoFlow ==
    PreRefreshable =>
        /\ Res.refreshCalls = 1
        /\ Res.flowCalls = 0
        /\ Res.raised \in {"none", "refresh", "io"}
        /\ Res.raised = "none" =>
              /\ Res.writes = 1
              /\ tokenFile = Res.ret
              /\ Res.ret = Some(Credential(inv[1].world.refresh[1].token,
                                           inv[1].world.refresh[1].expiry, TRUE))
              /\ ~expired(tokenFile[1], inv[1].clock)

\* C2 witness: a refresh happened and the invocation returned.
C2_Witness == PreRefreshable /\ ReturnedNormally /\ Res.refreshCalls = 1

\* C3: from an expired credential without a refresh token, one invocation
\* runs the interactive flow once and makes no refresh call; when it returns,
\* the token cache has been overwritten with the credential the flow yielded.
C3_FlowNoRefresh ==
    PreNotRefreshable =>
        /\ Res.flowCalls = 1
        /\ Res.refreshCalls = 0
        /\ Res.raised \in {"none", "flow", "io"}
        /\ Res.raised = "none" =>
              /\ Res.writes = 1
              /\ tokenFile = inv[1].world.flow
              /\ tokenFile = Res.ret
              /\ tokenFile # Pre

\* C3 witness: the flow replaced a credential that could not be refreshed.
C3_Witness == PreNotRefreshable /\ ReturnedNormally /\ tokenFile # Pre

\* C4: from a cached credential that is not expired, the invocation returns
\* that credential and touches nothing: no write, no refresh, no flow, the
\* token file as it was.
C4_FreshUntouched ==
    PreFresh =>
        /\ Res.raised = "none"
        /\ Res.ret = Pre
        /\ tokenFile = Pre
        /\ Res.writes = 0
        /\ Res.refreshCalls = 0
        /\ Res.flowCalls = 0

\* C4 witness: a credential obtained by an earlier invocation was returned
\* from the cache by a later one.
C4_Witness == PreFresh /\ ReturnedNormally /\ Pre[1].token > 0

\* C10: after any sequence of invocations, an invocation that returned
\* left the token cache existing and holding exactly what it returned, and an
\* invocation whose flow or refresh failed left the token cache as it was.
C10_CacheMatchesReturn ==
    Invoked =>
        /\ Res.raised = "none" => (tokenFile # None /\ tokenFile = Res.ret)
        /\ Res.raised \in {"flow", "refresh"} => tokenFile = Pre

\* C10 witness: a later invocation refreshed a credential that an earlier
\* invocation had stored and that expired in between.
C10_Witness == PreRefreshable /\ ReturnedNormally /\ Pre[1].token > 0

\* ------------------------------------------------------------------------
\* Properties of the sender (checked under SpecSend)
\* ------------------------------------------------------------------------

\* C5: a call of send_email makes exactly one send request, for the message
\* it was given; if the request raises, that same exception is logged and
\* raised, whatever a second request would have answered; if it succeeds
\* nothing is logged or raised.
C5_OneSendSameError ==
    sent # None =>
        LET call == sent[1]
        IN  /\ call.res.requests = <<SendRequest(call.email_msg)>>
            /\ mailbox # <<>>
            /\ mailbox[Len(mailbox)] = SendRequest(call.email_msg)
            /\ call.api[1] = "ok" => (call.res.raised = "none" /\ call.res.log = <<>>)
            /\ call.api[1] # "ok" => /\ call.res.raised = call.api[1]
                                     /\ call.res.log = <<call.api[1]>>

\* C5 witness: the request failed although a second one would have
\* succeeded, and the failure was raised.
C5_Witness ==
    /\ sent # None
    /\ sent[1].api[1] = "HttpError"
    /\ sent[1].api[2] = "ok"
    /\ sent[1].res.raised = "HttpError"

\* ------------------------------------------------------------------------
\* Properties of the message composer (checked under SpecMsg)
\* ------------------------------------------------------------------------

BuildReturned == built # None /\ built[1].res.raised = "none"

\* The text encoded in a payload.
Decoded(payload) == payload.raw.b64

\* The values of the header lines of a text that carry the given name.
HeaderValues(text, name) ==
    { SubSeq(text.lines[i], 4, Len(text.lines[i])) :
        i \in { j \in 1..Len(text.lines) : text.lines[j][1] = name } }

\* The first position at which ", " starts in s, 0 if there is none.
FirstCommaSpace(s) ==
    LET hits == { i \in 1..(Len(s) - 1) : s[i] = "," /\ s[i + 1] = " " }
    IN  IF hits = {} THEN 0 ELSE CHOOSE i \in hits : \A j \in hits : i <= j

RECURSIVE SplitCommaSpace(_)
\* s cut at every ", ": the pieces in order.
SplitCommaSpace(s) ==
    LET i == FirstCommaSpace(s)
    IN  IF i = 0 THEN <<s>>
        ELSE <<SubSeq(s, 1, i - 1)>> \o SplitCommaSpace(SubSeq(s, i + 2, Len(s)))

\* A header value lists exactly the given addresses, in order, with ", "
\* between them; it is empty for no addresses.
Lists(value, addresses) ==
    IF addresses = <<>> THEN value = <<>> ELSE SplitCommaSpace(value) = addresses

\* C6 (as claimed): a payload build_msg_obj returns has at least one To
\* address.
C6_ToNeverEmpty ==
    BuildReturned => /\ ~built[1].email_to.isNone
                     /\ Len(built[1].email_to.items) >= 1

\* C7: a message build_msg_obj returns has exactly one to, one cc and one bcc
\* header; to lists the To addresses in order; cc and bcc are empty when the
\* argument is None or empty and list its addresses in order otherwise.
C7_HeadersJoined ==
    BuildReturned =>
        LET call == built[1]
            text == Decoded(call.res.payload[1])
        IN  /\ \E v \in HeaderValues(text, "to") :
                  /\ HeaderValues(text, "to") = {v}
                  /\ Lists(v, call.email_to.items)
            /\ \E v \in HeaderValues(text, "cc") :
                  /\ HeaderValues(text, "cc") = {v}
                  /\ Lists(v, call.email_cc.items)
            /\ \E v \in HeaderValues(text, "bcc") :
                  /\ HeaderValues(text, "bcc") = {v}
                  /\ Lists(v, call.email_bcc.items)

\* C7 witness: two To addresses, no Cc (None) and two Bcc addresses.
C7_Witness ==
    /\ BuildReturned
    /\ built[1].email_to = PyList(<<AddrB, AddrA>>)
    /\ built[1].email_cc = PyNone
    /\ built[1].email_bcc = PyList(<<AddrB, AddrA>>)

\* ------------------------------------------------------------------------
\* Properties of the script (checked under SpecMain)
\* ------------------------------------------------------------------------

Terminated == pc \in {"done", "failed"}

\* Only the required flags were given.
OnlyRequiredFlags ==
    /\ argv[1].to # <<>>
    /\ argv[1].cc = <<>>
    /\ argv[1].bcc = <<>>
    /\ argv[1].attachments = <<>>

\* Nothing outside the script failed: the credential was acquired, the
\* service was built and no send request was refused.
OutsideWorldFine ==
    /\ inv # None /\ inv[1].res.raised = "none"
    /\ service # None
    /\ sent = None \/ sent[1].res.raised = "none"

\* C8 (as claimed): run with only the required flags, and with credential
\* acquisition and the API succeeding, main composes a message without
\* attachments, sends it once and completes.
C8_RequiredFlagsOnlySends ==
    (Terminated /\ OnlyRequiredFlags /\ OutsideWorldFine) =>
        /\ pc = "done"
        /\ exit = "none"
        /\ BuildReturned
        /\ Len(mailbox) = 1

\* Some file of the attachment list that main passed cannot be read.
SomeAttachmentUnreadable ==
    /\ built # None
    /\ ~built[1].email_attachments.isNone
    /\ \E i \in 1..Len(built[1].email_attachments.items) :
          built[1].email_attachments.items[i] \notin fs

\* C9: when an attachment cannot be read, build_msg_obj raises and yields no
\* payload, main ends with that error, and no send request was made.
C9_UnreadableAttachmentNoSend ==
    SomeAttachmentUnreadable =>
        /\ built[1].res.raised # "none"
        /\ built[1].res.payload = None
        /\ pc = "failed"
        /\ exit = built[1].res.raised
        /\ sent = None
        /\ mailbox = <<>>

\* C9 witness: the first attachment was read and attached, the second
\* could not be opened.
C9_Witness ==
    /\ built # None
    /\ ~built[1].email_attachments.isNone
    /\ Len(built[1].email_attachments.items) = 2
    /\ built[1].email_attachments.items[1] = "photo.png"
    /\ "photo.png" \in fs
    /\ built[1].email_attachments.items[2] \notin fs
    /\ built[1].res.raised = "OSError"

====
